---- MODULE Spec2Model ----
(***************************************************************************)
(* statefile: a typed JSON state file behind a tokio RwLock whose write    *)
(* guard persists the value when it is dropped (src/src/lib.rs).           *)
(*                                                                         *)
(* T is the two-field record of the crate's tests, TestData { field1:      *)
(* String, field2: u32 }.  File contents and JSON text are sequences of    *)
(* one-character strings.                                                  *)
(***************************************************************************)
EXTENDS Naturals, Sequences, FiniteSets

(***************************************************************************)
(* Bounds                                                                  *)
(***************************************************************************)
\* write sessions granted in one behaviour, over all stores
MaxSessions == 3

(***************************************************************************)
(* The state type T and its JSON encoding                                  *)
(***************************************************************************)
Test == <<"T", "e", "s", "t">>

\* the strings and numbers the sessions assign to the two fields
Field1Values == {<< >>, Test}

Field2Values == {0, 42}

TValues == [field1 : Field1Values, field2 : Field2Values]

\* #[derive(Default)]: String::default() = "", u32::default() = 0
TDefault == [field1 |-> << >>, field2 |-> 0]

Digit == <<"0", "1", "2", "3", "4", "5", "6", "7", "8", "9">>

RECURSIVE Decimal(_)
\* itoa: the decimal digits of an unsigned number, no leading zero
Decimal(n) ==
    IF n < 10 THEN <<Digit[n + 1]>>
    ELSE Decimal(n \div 10) \o <<Digit[(n % 10) + 1]>>

RECURSIVE Escape(_)
\* serde_json's string escaping, for the characters of the model's alphabet
Escape(s) ==
    IF s = << >> THEN << >>
    ELSE (IF Head(s) \in {"\"", "\\"} THEN <<"\\", Head(s)>> ELSE <<Head(s)>>)
         \o Escape(Tail(s))

Quoted(s) == <<"\"">> \o Escape(s) \o <<"\"">>

Key1 == <<"f", "i", "e", "l", "d", "1">>

Key2 == <<"f", "i", "e", "l", "d", "2">>

\* serde_json::to_string_pretty of a TestData: PrettyFormatter, two-space
\* indent, one field per line, ": " after the key, no trailing newline
to_string_pretty(v) ==
    <<"{", "\n", " ", " ">> \o Quoted(Key1) \o <<":", " ">> \o Quoted(v.field1)
    \o <<",", "\n", " ", " ">> \o Quoted(Key2) \o <<":", " ">> \o Decimal(v.field2)
    \o <<"\n", "}">>

\* serde_json::to_string (compact), the form test_file_read puts on disk
to_string(v) ==
    <<"{">> \o Quoted(Key1) \o <<":">> \o Quoted(v.field1)
    \o <<",">> \o Quoted(Key2) \o <<":">> \o Decimal(v.field2) \o <<"}">>

(***************************************************************************)
(* serde_json::from_str::<TestData>: a parser over the text.  Every step   *)
(* returns a record with ok, and on success the parsed val and the index   *)
(* nxt of the first unread character.                                      *)
(***************************************************************************)
Whitespace == {" ", "\n", "\t", "\r"}

Fail == [ok |-> FALSE]

RECURSIVE SkipWs(_, _)
SkipWs(s, i) ==
    IF i <= Len(s) /\ s[i] \in Whitespace THEN SkipWs(s, i + 1) ELSE i

RECURSIVE StrBody(_, _, _)
\* the characters of a JSON string up to its closing quote; i is past the
\* opening quote
StrBody(s, i, acc) ==
    IF i > Len(s) THEN Fail
    ELSE IF s[i] = "\"" THEN [ok |-> TRUE, val |-> acc, nxt |-> i + 1]
    ELSE IF s[i] = "\\" THEN
        IF i + 1 <= Len(s) /\ s[i + 1] \in {"\"", "\\"}
        THEN StrBody(s, i + 2, Append(acc, s[i + 1]))
        ELSE Fail
    ELSE IF s[i] \in {"\n", "\t", "\r"} THEN Fail
    ELSE StrBody(s, i + 1, Append(acc, s[i]))

ParseString(s, i) ==
    IF i <= Len(s) /\ s[i] = "\"" THEN StrBody(s, i + 1, << >>) ELSE Fail

DigitValue(c) == CHOOSE d \in 0..9 : Digit[d + 1] = c

IsDigit(c) == \E d \in 1..10 : Digit[d] = c

\* u32::MAX, 4294967295, as its digits
U32Max == <<"4", "2", "9", "4", "9", "6", "7", "2", "9", "5">>

RECURSIVE DigitRun(_, _)
\* the index after the run of digits that starts at i
DigitRun(s, i) ==
    IF i <= Len(s) /\ IsDigit(s[i]) THEN DigitRun(s, i + 1) ELSE i

RECURSIVE LexLeq(_, _)
\* a <= b for two digit sequences of the same length
LexLeq(a, b) ==
    IF a = << >> THEN TRUE
    ELSE IF Head(a) # Head(b) THEN DigitValue(Head(a)) < DigitValue(Head(b))
    ELSE LexLeq(Tail(a), Tail(b))

RECURSIVE ToNumber(_, _)
ToNumber(d, acc) ==
    IF d = << >> THEN acc ELSE ToNumber(Tail(d), acc * 10 + DigitValue(Head(d)))

\* a u32: no sign, no fraction, no exponent, no leading zero, at most
\* u32::MAX (compared digit by digit: the bound itself is beyond the
\* checker's integers)
ParseU32(s, i) ==
    IF i > Len(s) \/ ~IsDigit(s[i]) THEN Fail
    ELSE
    LET e == DigitRun(s, i)
        d == SubSeq(s, i, e - 1)
    IN
    IF e <= Len(s) /\ s[e] \in {".", "e", "E"} THEN Fail
    ELSE IF s[i] = "0" /\ Len(d) > 1 THEN Fail
    ELSE IF Len(d) > Len(U32Max) \/ (Len(d) = Len(U32Max) /\ ~LexLeq(d, U32Max)) THEN Fail
    ELSE [ok |-> TRUE, val |-> ToNumber(d, 0), nxt |-> e]

RECURSIVE ParseFields(_, _, _, _, _)
\* the derived visit_map: keys in any order, a duplicate or a missing field
\* is an error, an unknown key's string or number is skipped; acc holds the
\* fields read so far, seen their keys; first is TRUE right after the brace
ParseFields(s, i, acc, seen, first) ==
    LET j == SkipWs(s, i) IN
    IF j > Len(s) THEN Fail
    ELSE IF s[j] = "}" /\ first THEN Fail
    ELSE
        LET k == ParseString(s, j) IN
        IF ~k.ok THEN Fail
        ELSE
        LET c == SkipWs(s, k.nxt) IN
        IF c > Len(s) \/ s[c] # ":" THEN Fail
        ELSE
        LET p == SkipWs(s, c + 1)
            str == ParseString(s, p)
            num == ParseU32(s, p)
            isStr == k.val = Key1 \/ (k.val # Key2 /\ str.ok)
            r == IF isStr THEN str ELSE num
        IN
        IF ~r.ok THEN Fail
        ELSE IF k.val \in seen THEN Fail
        ELSE
        LET got == IF k.val = Key1 THEN [acc EXCEPT !.field1 = r.val]
                   ELSE IF k.val = Key2 THEN [acc EXCEPT !.field2 = r.val]
                   ELSE acc
            keys == seen \cup ({k.val} \cap {Key1, Key2})
            e == SkipWs(s, r.nxt)
        IN
        IF e > Len(s) THEN Fail
        ELSE IF s[e] = "," THEN ParseFields(s, e + 1, got, keys, FALSE)
        ELSE IF s[e] = "}" THEN
            IF keys # {Key1, Key2} THEN Fail
            ELSE [ok |-> TRUE, val |-> got, nxt |-> e + 1]
        ELSE Fail

\* from_str: one object, then Deserializer::end(): only whitespace may follow
from_str(s) ==
    LET i == SkipWs(s, 1) IN
    IF i > Len(s) \/ s[i] # "{" THEN Fail
    ELSE
    LET r == ParseFields(s, i + 1, TDefault, {}, TRUE) IN
    IF ~r.ok THEN Fail
    ELSE IF SkipWs(s, r.nxt) <= Len(s) THEN Fail
    ELSE [ok |-> TRUE, val |-> r.val]

(***************************************************************************)
(* The file system, the stores and the tasks                               *)
(***************************************************************************)
Dirs == {"d1", "d2"}

Stores == {1, 2}

Tasks == {1, 2, 3}

NoTask == 0

NoFile == [exists |-> FALSE, bytes |-> << >>]

EmptyFile == [exists |-> TRUE, bytes |-> << >>]

FileOf(b) == [exists |-> TRUE, bytes |-> b]

\* the path every store is constructed with: a relative file name
StatePath == [abs |-> FALSE, dir |-> "d1"]

\* where the operating system finds a path when it is opened
Resolve(path, wd) == IF path.abs THEN path.dir ELSE wd

\* what the file may hold before the first store is constructed
InitialFiles ==
    { NoFile, EmptyFile,
      FileOf(to_string([field1 |-> Test, field2 |-> 42])),
      FileOf(to_string_pretty([field1 |-> Test, field2 |-> 0])),
      FileOf(<<"{", "\"", "f", "i", "e", "l", "d", "1", "\"", ":">>) }

VARIABLES
    fs,        \* directory -> the state file in it
    cwd,       \* the process's working directory
    sstate,    \* store -> "none" | "open" | "io_err" | "decode_err"
    spath,     \* store -> File::path
    sdir,      \* store -> the directory of the file File::new opened
    data,      \* store -> the value inside File::data
    readers,   \* store -> tasks holding an RwLockReadGuard
    writer,    \* store -> the task holding the RwLockWriteGuard, or NoTask
    queue,     \* store -> the lock's FIFO wait list
    pc,        \* task -> where it is
    tstore,    \* task -> the store of its session
    json,      \* task -> the local json of WriteGuard::drop
    fd,        \* task -> the directory of the file drop has open
    log,       \* store -> what the last drop of a guard of it reported
    seen,      \* task -> the value its read guard showed when it was granted
    sid,       \* task -> number of its write session
    nsess,     \* write sessions granted so far
    attempts,  \* task -> runs of the drop body in its session
    landed,    \* the write_all calls that reached the file, in order
    committed  \* store -> the value left by the last finished write session

vars == <<fs, cwd, sstate, spath, sdir, data, readers, writer, queue, pc, tstore, json,
          fd, log, seen, sid, nsess, attempts, landed, committed>>

lockVars == <<readers, writer, queue>>

storeVars == <<sstate, spath, sdir, data, committed>>

dropVars == <<json, fd, log, attempts, landed>>

Init ==
    /\ cwd = "d1"
    /\ \E f \in InitialFiles : fs = [d \in Dirs |-> IF d = "d1" THEN f ELSE NoFile]
    /\ sstate = [s \in Stores |-> "none"]
    /\ spath = [s \in Stores |-> StatePath]
    /\ sdir = [s \in Stores |-> "d1"]
    /\ data = [s \in Stores |-> TDefault]
    /\ committed = [s \in Stores |-> TDefault]
    /\ readers = [s \in Stores |-> {}]
    /\ writer = [s \in Stores |-> NoTask]
    /\ queue = [s \in Stores |-> << >>]
    /\ pc = [t \in Tasks |-> "idle"]
    /\ tstore = [t \in Tasks |-> 1]
    /\ json = [t \in Tasks |-> << >>]
    /\ fd = [t \in Tasks |-> "d1"]
    /\ log = [s \in Stores |-> "none"]
    /\ seen = [t \in Tasks |-> TDefault]
    /\ sid = [t \in Tasks |-> 0]
    /\ nsess = 0
    /\ attempts = [t \in Tasks |-> 0]
    /\ landed = << >>

(***************************************************************************)
(* File::new                                                               *)
(***************************************************************************)
\* mutant: the open of File::new given truncate(true)
CreatedTruncating(f) == EmptyFile

\* OpenOptions read+write+create: the file after a successful open
Created(f) == IF f.exists THEN f ELSE EmptyFile

\* mutant: no is_empty() test before the decode
LoadAlwaysParse(contents) == from_str(contents)

\* mutant: contents that do not decode fall back to the default value
LoadDefaultOnError(contents) ==
    IF contents # << >> /\ from_str(contents).ok THEN from_str(contents)
    ELSE [ok |-> TRUE, val |-> TDefault]

\* lines 111-115: the value for the contents read
Load(contents) ==
    IF contents = << >> THEN [ok |-> TRUE, val |-> TDefault] ELSE from_str(contents)

New(s) ==
    /\ sstate[s] = "none"
    /\ LET d == Resolve(StatePath, cwd)
           f == Created(fs[d])
           r == Load(f.bytes)
       IN
       \/ \* open fails
          /\ sstate' = [sstate EXCEPT ![s] = "io_err"]
          /\ UNCHANGED <<fs, data, committed>>
       \/ \* open succeeds, read_to_string fails
          /\ fs' = [fs EXCEPT ![d] = f]
          /\ sstate' = [sstate EXCEPT ![s] = "io_err"]
          /\ UNCHANGED <<data, committed>>
       \/ \* the contents are read
          /\ fs' = [fs EXCEPT ![d] = f]
          /\ IF r.ok
             THEN /\ sstate' = [sstate EXCEPT ![s] = "open"]
                  /\ data' = [data EXCEPT ![s] = r.val]
                  /\ committed' = [committed EXCEPT ![s] = r.val]
             ELSE /\ sstate' = [sstate EXCEPT ![s] = "decode_err"]
                  /\ UNCHANGED <<data, committed>>
    /\ spath' = [spath EXCEPT ![s] = StatePath]
    /\ sdir' = [sdir EXCEPT ![s] = Resolve(StatePath, cwd)]
    /\ UNCHANGED <<cwd, lockVars, pc, tstore, seen, sid, nsess, dropVars>>

(***************************************************************************)
(* tokio::sync::RwLock: a fair lock.  A request is granted at once when    *)
(* nobody waits and the holders allow it, and joins the wait list          *)
(* otherwise; a release hands the lock to the head of the list.            *)
(***************************************************************************)
\* mutant: a reader is admitted beside a writer
ReadAllowedIgnoringWriter(s) == queue[s] = << >>

\* mutant: a reader is not admitted beside another reader
ReadAllowedExclusive(s) == writer[s] = NoTask /\ readers[s] = {} /\ queue[s] = << >>

\* mutant: a reader-preferring lock, a read request passes the waiting writers
ReadAllowedBarging(s) == writer[s] = NoTask

ReadAllowed(s) == writer[s] = NoTask /\ queue[s] = << >>

\* mutant: a second writer is admitted
WriteAllowedIgnoringWriter(s) == readers[s] = {} /\ queue[s] = << >>

\* mutant: a writer is admitted beside readers
WriteAllowedIgnoringReaders(s) == writer[s] = NoTask /\ queue[s] = << >>

WriteAllowed(s) == writer[s] = NoTask /\ readers[s] = {} /\ queue[s] = << >>

RECURSIVE Drain(_, _, _, _)
\* the waiters granted when the lock has readers r and writer w; want maps a
\* waiting task to "waitR" or "waitW"
Drain(q, r, w, want) ==
    IF q = << >> \/ w # NoTask THEN [q |-> q, r |-> r, w |-> w]
    ELSE IF want[Head(q)] = "waitR" THEN Drain(Tail(q), r \cup {Head(q)}, w, want)
    ELSE IF r = {} THEN [q |-> Tail(q), r |-> r, w |-> Head(q)]
    ELSE [q |-> q, r |-> r, w |-> w]

\* the lock of store s after its holders became r and w: the wait list is
\* drained and every task granted moves on
Handover(s, r, w, pcNow) ==
    LET g == Drain(queue[s], r, w, pcNow)
        newW == g.w # NoTask /\ g.w # w
    IN
    /\ readers' = [readers EXCEPT ![s] = g.r]
    /\ writer' = [writer EXCEPT ![s] = g.w]
    /\ queue' = [queue EXCEPT ![s] = g.q]
    /\ pc' = [t \in Tasks |->
                IF t \in g.r \ r THEN "reading"
                ELSE IF newW /\ t = g.w THEN "writing"
                ELSE pcNow[t]]
    /\ seen' = [t \in Tasks |->
                  IF t \in g.r \ r THEN data[s]
                  ELSE IF pcNow[t] = "idle" THEN TDefault ELSE seen[t]]
    /\ sid' = [t \in Tasks |->
                 IF newW /\ t = g.w THEN nsess + 1
                 ELSE IF pcNow[t] = "idle" THEN 0 ELSE sid[t]]
    /\ nsess' = IF newW THEN nsess + 1 ELSE nsess

\* File::read
ReadReq(t, s) ==
    /\ pc[t] = "idle"
    /\ sstate[s] = "open"
    /\ tstore' = [tstore EXCEPT ![t] = s]
    /\ IF ReadAllowed(s)
       THEN /\ readers' = [readers EXCEPT ![s] = @ \cup {t}]
            /\ pc' = [pc EXCEPT ![t] = "reading"]
            /\ seen' = [seen EXCEPT ![t] = data[s]]
            /\ UNCHANGED queue
       ELSE /\ queue' = [queue EXCEPT ![s] = Append(@, t)]
            /\ pc' = [pc EXCEPT ![t] = "waitR"]
            /\ UNCHANGED <<readers, seen>>
    /\ UNCHANGED <<fs, cwd, storeVars, writer, sid, nsess, dropVars>>

\* dropping the RwLockReadGuard
ReadRelease(t) ==
    /\ pc[t] = "reading"
    /\ Handover(tstore[t], readers[tstore[t]] \ {t}, NoTask, [pc EXCEPT ![t] = "idle"])
    /\ UNCHANGED <<fs, cwd, storeVars, tstore, dropVars>>

\* mutant: a granted write session starts from what the file holds now
WriteReqReloading(t, s) ==
    /\ pc[t] = "idle"
    /\ sstate[s] = "open"
    /\ nsess + Cardinality({u \in Tasks : pc[u] = "waitW"}) < MaxSessions
    /\ tstore' = [tstore EXCEPT ![t] = s]
    /\ IF WriteAllowed(s)
       THEN /\ writer' = [writer EXCEPT ![s] = t]
            /\ pc' = [pc EXCEPT ![t] = "writing"]
            /\ sid' = [sid EXCEPT ![t] = nsess + 1]
            /\ nsess' = nsess + 1
            /\ data' = [data EXCEPT ![s] =
                          IF Load(fs[Resolve(spath[s], cwd)].bytes).ok
                          THEN Load(fs[Resolve(spath[s], cwd)].bytes).val ELSE @]
            /\ UNCHANGED queue
       ELSE /\ queue' = [queue EXCEPT ![s] = Append(@, t)]
            /\ pc' = [pc EXCEPT ![t] = "waitW"]
            /\ UNCHANGED <<writer, sid, nsess, data>>
    /\ UNCHANGED <<fs, cwd, sstate, spath, sdir, committed, readers, seen, dropVars>>

\* File::write
WriteReq(t, s) ==
    /\ pc[t] = "idle"
    /\ sstate[s] = "open"
    /\ nsess + Cardinality({u \in Tasks : pc[u] = "waitW"}) < MaxSessions
    /\ tstore' = [tstore EXCEPT ![t] = s]
    /\ IF WriteAllowed(s)
       THEN /\ writer' = [writer EXCEPT ![s] = t]
            /\ pc' = [pc EXCEPT ![t] = "writing"]
            /\ sid' = [sid EXCEPT ![t] = nsess + 1]
            /\ nsess' = nsess + 1
            /\ UNCHANGED queue
       ELSE /\ queue' = [queue EXCEPT ![s] = Append(@, t)]
            /\ pc' = [pc EXCEPT ![t] = "waitW"]
            /\ UNCHANGED <<writer, sid, nsess>>
    /\ UNCHANGED <<fs, cwd, storeVars, readers, seen, dropVars>>

(***************************************************************************)
(* WriteGuard: DerefMut, then Drop                                         *)
(***************************************************************************)
\* mutant: every mutation is written to the file
SetField1Persisting(t, x) ==
    /\ pc[t] = "writing"
    /\ data' = [data EXCEPT ![tstore[t]].field1 = x]
    /\ fs' = [fs EXCEPT ![Resolve(spath[tstore[t]], cwd)] =
                 [exists |-> TRUE, bytes |-> to_string_pretty(data'[tstore[t]])]]
    /\ UNCHANGED <<cwd, sstate, spath, sdir, committed, lockVars, pc, tstore, seen,
                   sid, nsess, dropVars>>

\* write_guard.field1 = x
SetField1(t, x) ==
    /\ pc[t] = "writing"
    /\ data' = [data EXCEPT ![tstore[t]].field1 = x]
    /\ UNCHANGED <<fs, cwd, sstate, spath, sdir, committed, lockVars, pc, tstore, seen,
                   sid, nsess, dropVars>>

\* write_guard.field2 = n
SetField2(t, n) ==
    /\ pc[t] = "writing"
    /\ data' = [data EXCEPT ![tstore[t]].field2 = n]
    /\ UNCHANGED <<fs, cwd, sstate, spath, sdir, committed, lockVars, pc, tstore, seen,
                   sid, nsess, dropVars>>

\* mutant: the detached flush, the lock is given up as the drop begins
DropSerializeDetached(t) ==
    /\ pc[t] = "writing"
    /\ attempts' = [attempts EXCEPT ![t] = @ + 1]
    /\ json' = [json EXCEPT ![t] = to_string_pretty(data[tstore[t]])]
    /\ pc' = [pc EXCEPT ![t] = "open"]
    /\ writer' = [writer EXCEPT ![tstore[t]] = NoTask]
    /\ UNCHANGED <<fs, cwd, storeVars, readers, queue, tstore, seen, sid, nsess, fd,
                   log, landed>>

\* mutant: a session that changed nothing skips persistence
DropSerializeIfDirty(t) ==
    /\ pc[t] = "writing"
    /\ IF data[tstore[t]] = committed[tstore[t]]
       THEN /\ pc' = [pc EXCEPT ![t] = "unlock"]
            /\ UNCHANGED <<json, log, attempts>>
       ELSE /\ attempts' = [attempts EXCEPT ![t] = @ + 1]
            /\ \/ /\ json' = [json EXCEPT ![t] = to_string_pretty(data[tstore[t]])]
                  /\ pc' = [pc EXCEPT ![t] = "open"]
                  /\ UNCHANGED log
               \/ /\ log' = [log EXCEPT ![tstore[t]] = "serialize_err"]
                  /\ pc' = [pc EXCEPT ![t] = "unlock"]
                  /\ UNCHANGED json
    /\ UNCHANGED <<fs, cwd, storeVars, lockVars, tstore, seen, sid, nsess, fd, landed>>

\* lines 17-23: drop begins and serializes the value
DropSerialize(t) ==
    /\ pc[t] = "writing"
    /\ attempts' = [attempts EXCEPT ![t] = @ + 1]
    /\ \/ /\ json' = [json EXCEPT ![t] = to_string_pretty(data[tstore[t]])]
          /\ pc' = [pc EXCEPT ![t] = "open"]
          /\ UNCHANGED log
       \/ /\ log' = [log EXCEPT ![tstore[t]] = "serialize_err"]
          /\ pc' = [pc EXCEPT ![t] = "unlock"]
          /\ UNCHANGED json
    /\ UNCHANGED <<fs, cwd, storeVars, lockVars, tstore, seen, sid, nsess, fd, landed>>

\* mutant: a failed open undoes the session's mutations
DropOpenRollingBack(t) ==
    /\ pc[t] = "open"
    /\ LET d == Resolve(spath[tstore[t]], cwd) IN
       \/ /\ fs' = [fs EXCEPT ![d] = IF @.exists THEN @ ELSE EmptyFile]
          /\ fd' = [fd EXCEPT ![t] = d]
          /\ pc' = [pc EXCEPT ![t] = "write"]
          /\ UNCHANGED <<log, data>>
       \/ /\ log' = [log EXCEPT ![tstore[t]] = "open_err"]
          /\ pc' = [pc EXCEPT ![t] = "unlock"]
          /\ data' = [data EXCEPT ![tstore[t]] = committed[tstore[t]]]
          /\ UNCHANGED <<fs, fd>>
    /\ UNCHANGED <<cwd, sstate, spath, sdir, committed, lockVars, tstore, seen, sid, nsess,
                   json, attempts, landed>>

\* lines 26-33: OpenOptions write+create, no truncate, no append
DropOpen(t) ==
    /\ pc[t] = "open"
    /\ LET d == Resolve(spath[tstore[t]], cwd) IN
       \/ /\ fs' = [fs EXCEPT ![d] = Created(@)]
          /\ fd' = [fd EXCEPT ![t] = d]
          /\ pc' = [pc EXCEPT ![t] = "write"]
          /\ UNCHANGED log
       \/ /\ log' = [log EXCEPT ![tstore[t]] = "open_err"]
          /\ pc' = [pc EXCEPT ![t] = "unlock"]
          /\ UNCHANGED <<fs, fd>>
    /\ UNCHANGED <<cwd, storeVars, lockVars, tstore, seen, sid, nsess, json,
                   attempts, landed>>

\* a write of b at offset 0 of a file that is not truncated
Overwrite(old, b) ==
    IF Len(b) >= Len(old) THEN b ELSE b \o SubSeq(old, Len(b) + 1, Len(old))

\* the lengths a failing write_all may have written before the error
PartialLens(b) == {0, Len(b) \div 2}

\* the handle of a file that was unlinked while it was open
Unlinked == "unlinked"

\* the files after b is written through the handle h: the bytes of an
\* unlinked file are in no directory
WriteAt(h, b) ==
    IF h = Unlinked THEN fs ELSE [fs EXCEPT ![h].bytes = Overwrite(@, b)]

\* lines 36-39: write_all from the start of the file
DropWrite(t) ==
    /\ pc[t] = "write"
    /\ \/ /\ fs' = WriteAt(fd[t], json[t])
          /\ landed' = Append(landed, [sid |-> sid[t], store |-> tstore[t]])
          /\ pc' = [pc EXCEPT ![t] = "flush"]
          /\ UNCHANGED log
       \/ \E n \in PartialLens(json[t]) :
          /\ fs' = WriteAt(fd[t], SubSeq(json[t], 1, n))
          /\ log' = [log EXCEPT ![tstore[t]] = "write_err"]
          /\ pc' = [pc EXCEPT ![t] = "unlock"]
          /\ UNCHANGED landed
    /\ UNCHANGED <<cwd, storeVars, lockVars, tstore, seen, sid, nsess, json, fd,
                   attempts>>

\* lines 42-47: flush, then the report
DropFlush(t) ==
    /\ pc[t] = "flush"
    /\ \E r \in {"ok", "flush_err"} : log' = [log EXCEPT ![tstore[t]] = r]
    /\ pc' = [pc EXCEPT ![t] = "unlock"]
    /\ UNCHANGED <<fs, cwd, storeVars, lockVars, tstore, seen, sid, nsess, json, fd,
                   attempts, landed>>

\* after the drop body: the guard field is dropped and the lock released
DropGuard(t) ==
    /\ pc[t] = "unlock"
    /\ committed' = [committed EXCEPT ![tstore[t]] = data[tstore[t]]]
    /\ UNCHANGED data
    /\ json' = [json EXCEPT ![t] = << >>]
    /\ attempts' = [attempts EXCEPT ![t] = 0]
    /\ Handover(tstore[t], readers[tstore[t]], NoTask, [pc EXCEPT ![t] = "idle"])
    /\ UNCHANGED <<fs, cwd, sstate, spath, sdir, tstore, fd, log, landed>>

(***************************************************************************)
(* The environment: other programs change the file, the process changes    *)
(* its working directory                                                   *)
(***************************************************************************)
\* what another program writes into the state file
ExternalContents ==
    { to_string([field1 |-> Test, field2 |-> 42]),
      <<"{", "\"", "f", "i", "e", "l", "d", "1", "\"", ":">> }

\* std::fs::write by someone else: the file is created or truncated, then
\* written
ExternalWrite(d, b) ==
    /\ fs[d] # FileOf(b)
    /\ fs' = [fs EXCEPT ![d] = FileOf(b)]
    /\ UNCHANGED <<cwd, storeVars, lockVars, pc, tstore, seen, sid, nsess, dropVars>>

\* remove_file by someone else: a drop that has the file open keeps a handle
\* to the unlinked file
ExternalDelete(d) ==
    /\ fs[d].exists
    /\ fs' = [fs EXCEPT ![d] = NoFile]
    /\ fd' = [t \in Tasks |-> IF pc[t] = "write" /\ fd[t] = d THEN Unlinked ELSE fd[t]]
    /\ UNCHANGED <<cwd, storeVars, lockVars, pc, tstore, seen, sid, nsess, json, log,
                   attempts, landed>>

\* std::env::set_current_dir
Chdir(d) ==
    /\ d # cwd
    /\ cwd' = d
    /\ UNCHANGED <<fs, storeVars, lockVars, pc, tstore, seen, sid, nsess, dropVars>>

\* one store shared by three tasks
OneStore == {1}

Next ==
    \/ \E s \in OneStore : New(s)
    \/ \E t \in Tasks, s \in OneStore : ReadReq(t, s)
    \/ \E t \in Tasks : ReadRelease(t)
    \/ \E t \in Tasks, s \in OneStore : WriteReq(t, s)
    \/ \E t \in Tasks, x \in Field1Values : SetField1(t, x)
    \/ \E t \in Tasks, n \in Field2Values : SetField2(t, n)
    \/ \E t \in Tasks : DropSerialize(t)
    \/ \E t \in Tasks : DropOpen(t)
    \/ \E t \in Tasks : DropWrite(t)
    \/ \E t \in Tasks : DropFlush(t)
    \/ \E t \in Tasks : DropGuard(t)

Spec == Init /\ [][Next]_vars

\* one task, and a second store constructed over the same path at any time
OneTask == {1}

NextFresh ==
    \/ \E s \in Stores : New(s)
    \/ \E t \in OneTask, s \in Stores : ReadReq(t, s)
    \/ \E t \in OneTask : ReadRelease(t)
    \/ \E t \in OneTask, s \in Stores : WriteReq(t, s)
    \/ \E t \in OneTask, x \in Field1Values : SetField1(t, x)
    \/ \E t \in OneTask, n \in Field2Values : SetField2(t, n)
    \/ \E t \in OneTask : DropSerialize(t)
    \/ \E t \in OneTask : DropOpen(t)
    \/ \E t \in OneTask : DropWrite(t)
    \/ \E t \in OneTask : DropFlush(t)
    \/ \E t \in OneTask : DropGuard(t)

SpecFresh == Init /\ [][NextFresh]_vars

\* one store and two tasks, while other programs rewrite and delete the file
TwoTasks == {1, 2}

NextExt ==
    \/ \E s \in OneStore : New(s)
    \/ \E t \in TwoTasks, s \in OneStore : ReadReq(t, s)
    \/ \E t \in TwoTasks : ReadRelease(t)
    \/ \E t \in TwoTasks, s \in OneStore : WriteReq(t, s)
    \/ \E t \in TwoTasks, x \in Field1Values : SetField1(t, x)
    \/ \E t \in TwoTasks, n \in Field2Values : SetField2(t, n)
    \/ \E t \in TwoTasks : DropSerialize(t)
    \/ \E t \in TwoTasks : DropOpen(t)
    \/ \E t \in TwoTasks : DropWrite(t)
    \/ \E t \in TwoTasks : DropFlush(t)
    \/ \E t \in TwoTasks : DropGuard(t)
    \/ \E b \in ExternalContents : ExternalWrite(Resolve(StatePath, cwd), b)
    \/ ExternalDelete(Resolve(StatePath, cwd))

SpecExt == Init /\ [][NextExt]_vars

\* every session that is held is released in the end: the steps that take a
\* task from a held guard back to idle
Release(t) ==
    \/ ReadRelease(t)
    \/ DropSerialize(t)
    \/ DropOpen(t)
    \/ DropWrite(t)
    \/ DropFlush(t)
    \/ DropGuard(t)

\* the numbers of the write sessions that are held
HeldSids == {sid[t] : t \in {u \in Tasks : pc[u] \in {"writing", "open", "write", "flush", "unlock"}}}

\* bookkeeping only: the record of the finished write sessions is dropped and
\* the held ones are numbered from 1 again, so that write requests can go on
\* arriving without end
ForgetHistory ==
    /\ nsess > Cardinality(HeldSids)
    /\ LET Rank(k) == Cardinality({h \in HeldSids : h <= k})
           Keep(e) == e.sid \in HeldSids
           kept == SelectSeq(landed, Keep)
       IN
       /\ nsess' = Cardinality(HeldSids)
       /\ sid' = [t \in Tasks |-> IF sid[t] \in HeldSids THEN Rank(sid[t]) ELSE 0]
       /\ landed' = [i \in DOMAIN kept |-> [kept[i] EXCEPT !.sid = Rank(@)]]
    /\ UNCHANGED <<fs, cwd, storeVars, lockVars, pc, tstore, seen, json, fd, log, attempts>>

\* the three tasks on one store built over an empty file, with requests that
\* never stop and with that fairness
InitLive == Init /\ fs["d1"] = EmptyFile

NextLive ==
    \/ \E s \in OneStore : New(s)
    \/ \E t \in Tasks, s \in OneStore : ReadReq(t, s)
    \/ \E t \in Tasks, s \in OneStore : WriteReq(t, s)
    \/ \E t \in Tasks : SetField1(t, Test)
    \/ \E t \in Tasks : Release(t)
    \/ ForgetHistory

SpecLive == InitLive /\ [][NextLive]_vars /\ \A t \in Tasks : WF_vars(Release(t))

\* one store and one task, while the process changes its working directory
NextCwd ==
    \/ \E s \in OneStore : New(s)
    \/ \E d \in Dirs : Chdir(d)
    \/ \E t \in OneTask, s \in OneStore : ReadReq(t, s)
    \/ \E t \in OneTask : ReadRelease(t)
    \/ \E t \in OneTask, s \in OneStore : WriteReq(t, s)
    \/ \E t \in OneTask, x \in Field1Values : SetField1(t, x)
    \/ \E t \in OneTask, n \in Field2Values : SetField2(t, n)
    \/ \E t \in OneTask : DropSerialize(t)
    \/ \E t \in OneTask : DropOpen(t)
    \/ \E t \in OneTask : DropWrite(t)
    \/ \E t \in OneTask : DropFlush(t)
    \/ \E t \in OneTask : DropGuard(t)

SpecCwd == Init /\ [][NextCwd]_vars

\* two stores constructed over the same path, where the file starts empty, and
\* two tasks that take write sessions on them
NextTwo ==
    \/ \E s \in Stores : New(s)
    \/ \E t \in TwoTasks, s \in Stores : WriteReq(t, s)
    \/ \E t \in TwoTasks, x \in Field1Values : SetField1(t, x)
    \/ \E t \in TwoTasks, n \in Field2Values : SetField2(t, n)
    \/ \E t \in TwoTasks : DropSerialize(t)
    \/ \E t \in TwoTasks : DropOpen(t)
    \/ \E t \in TwoTasks : DropWrite(t)
    \/ \E t \in TwoTasks : DropFlush(t)
    \/ \E t \in TwoTasks : DropGuard(t)

SpecTwo == InitLive /\ [][NextTwo]_vars

(***************************************************************************)
(* Properties                                                              *)
(***************************************************************************)
\* a write session is Active in "writing" and Releasing in the four drop
\* states; it is Released when its task is back at "idle"
DropPcs == {"open", "write", "flush", "unlock"}

WritePcs == {"writing"} \cup DropPcs

ReleaseErrors == {"serialize_err", "open_err", "write_err", "flush_err"}

StateFile == fs[Resolve(StatePath, cwd)]

WriteHolders(s) == {t \in Tasks : tstore[t] = s /\ pc[t] \in WritePcs}

ReadHolders(s) == {t \in Tasks : tstore[t] = s /\ pc[t] = "reading"}

\* C1: a write session that leaves the value v and is released with every
\* step of the drop succeeding, followed by the construction of a fresh
\* store over the same path, gives a store whose value is v.
C1_RoundTrip ==
    [][\A s \in Stores, f \in Stores :
          (/\ f # s
           /\ sstate[s] = "open" /\ writer[s] = NoTask /\ log[s] = "ok"
           /\ sstate[f] = "none" /\ sstate'[f] \in {"open", "decode_err"})
          => (sstate'[f] = "open" /\ data'[f] = data[s])]_vars

\* C2: after a release in which serialize, open, write and flush succeeded
\* the file holds exactly the pretty JSON of the in-memory value.
C2_ReleaseOverwritesFile ==
    \A s \in OneStore :
        (sstate[s] = "open" /\ log[s] = "ok" /\ writer[s] = NoTask)
        => StateFile.bytes = to_string_pretty(data[s])

\* C3: at most one write session (Active or Releasing) per store; while it is
\* held the lock names its task as the writer and every other task that asked
\* for write access to the store is still waiting.
C3_AtMostOneWriter ==
    \A s \in Stores :
        /\ Cardinality(WriteHolders(s)) <= 1
        /\ \A t \in WriteHolders(s) :
              /\ writer[s] = t
              /\ \A u \in Tasks \ {t} :
                    (tstore[u] = s /\ pc[u] \notin {"idle", "reading", "waitR"})
                    => pc[u] = "waitW"

C3_Witness ==
    \E t, u \in Tasks :
        /\ t # u /\ tstore[t] = tstore[u]
        /\ pc[t] = "writing" /\ pc[u] = "waitW" /\ sid[t] = 2

\* C4: a read session and a write session of a store are never held together:
\* whenever a write session is held (so also right after it is granted) the
\* store has no read session, and the lock's own record agrees.
C4_ReadersExcludeWriter ==
    \A s \in Stores :
        /\ ReadHolders(s) = {} \/ WriteHolders(s) = {}
        /\ readers[s] = ReadHolders(s)
        /\ writer[s] # NoTask => readers[s] = {}

C4_Witness ==
    \E t, u, w \in Tasks :
        /\ pc[t] = "reading" /\ pc[u] = "reading" /\ t # u
        /\ pc[w] = "waitW"

\* C5: while a session is Active no step touches the file; a session's phases
\* only go forward (Active, Releasing, Released); the drop body runs once, its
\* write_all happens at most once and carries the encoding of the value the
\* session left.
C5_OnePersistencePerSession ==
    [][\A t \in Tasks :
          /\ pc[t] = "writing" => fs' = fs
          /\ pc[t] = "writing" => pc'[t] \in {"writing", "open", "unlock"}
          /\ pc[t] = "open" => pc'[t] \in {"open", "write", "unlock"}
          /\ pc[t] = "write" => pc'[t] \in {"write", "flush", "unlock"}
          /\ pc[t] = "flush" => pc'[t] \in {"flush", "unlock"}
          /\ pc[t] = "unlock" => pc'[t] \in {"unlock", "idle"}
          /\ pc[t] \in DropPcs =>
                /\ attempts[t] = 1
                /\ attempts'[t] = IF pc'[t] = "idle" THEN 0 ELSE 1
                /\ Cardinality({i \in DOMAIN landed : landed[i].sid = sid[t]})
                      = IF pc[t] = "flush"
                           \/ (pc[t] = "unlock" /\ log[tstore[t]] \in {"ok", "flush_err"})
                        THEN 1 ELSE 0
          /\ (pc[t] = "write" /\ fs' # fs) =>
                LET n == Len(json[t]) IN
                /\ json[t] = to_string_pretty(data[tstore[t]])
                /\ \E k \in 0..n :
                      /\ k = n \/ pc'[t] = "unlock"
                      /\ Len(fs'[fd[t]].bytes) >= k
                      /\ SubSeq(fs'[fd[t]].bytes, 1, k) = SubSeq(json[t], 1, k)]_vars

\* a session that changed both fields is Releasing and its write_all landed
C5_Witness ==
    \E t \in Tasks :
        /\ pc[t] = "flush"
        /\ data[tstore[t]].field1 # committed[tstore[t]].field1
        /\ data[tstore[t]].field2 # committed[tstore[t]].field2
        /\ landed # << >> /\ landed[Len(landed)].sid = sid[t]

\* C6: the lock is held for the whole of the drop: while a session is
\* Releasing its task is still the writer and nobody else holds a session of
\* the store, so two drops never overlap; the write_all calls of a store reach
\* the file in the order in which the sessions were granted.
C6_PersistBeforeUnlock ==
    /\ \A t \in Tasks :
          pc[t] \in DropPcs =>
             /\ writer[tstore[t]] = t
             /\ readers[tstore[t]] = {}
             /\ \A u \in Tasks \ {t} :
                   tstore[u] = tstore[t] => pc[u] \in {"idle", "waitR", "waitW"}
    /\ \A i, j \in DOMAIN landed :
          (i < j /\ landed[i].store = landed[j].store) => landed[i].sid < landed[j].sid

\* the second session's write is in flight while a reader and a writer wait
C6_Witness ==
    \E t, u, w \in Tasks :
        /\ pc[t] = "flush" /\ Len(landed) = 2
        /\ pc[u] = "waitW" /\ pc[w] = "waitR"

\* C7: no step of the drop changes the in-memory value; a drop that reported
\* a failure can always go on to release the lock, and that release hands the
\* lock to the head of the wait list with the value the session left, which
\* is what the sessions granted by it see.
C7_ReleaseFailuresSwallowed ==
    [][\A t \in Tasks :
          LET s == tstore[t] IN
          /\ pc[t] \in DropPcs => data'[s] = data[s]
          /\ (pc[t] \in WritePcs \ {"unlock"} /\ pc'[t] = "unlock")
                => log'[s] \in ReleaseErrors \cup {"ok"}
          /\ (pc[t] = "unlock" /\ log[s] \in ReleaseErrors) =>
                /\ ENABLED DropGuard(t)
                /\ pc'[t] = "idle" =>
                      /\ writer'[s] # t
                      /\ committed'[s] = data[s]
                      /\ queue[s] # << >> =>
                            pc'[Head(queue[s])] \in {"reading", "writing"}
                      /\ \A u \in Tasks :
                            (pc[u] = "waitR" /\ pc'[u] = "reading") => seen'[u] = data[s]]_vars

\* after a failed open the file is still empty and a reader sees the
\* mutated value
C7_Witness ==
    \E u \in Tasks :
        /\ log[tstore[u]] = "open_err" /\ nsess = 1
        /\ pc[u] = "reading" /\ seen[u] = [field1 |-> Test, field2 |-> 42]
        /\ StateFile.bytes = << >>

\* C8: what a read session shows is the value left by the last finished write
\* session (or the loaded value), and it is still the value shown when the
\* session was granted.
C8_ReadersSeeCompletedSessions ==
    \A t \in Tasks :
        pc[t] = "reading" =>
           /\ data[tstore[t]] = committed[tstore[t]]
           /\ seen[t] = data[tstore[t]]

\* a reader granted after the first session sees its value while the second
\* writer waits
C8_Witness ==
    \E t, u \in Tasks :
        /\ pc[t] = "reading" /\ pc[u] = "waitW" /\ nsess = 1
        /\ seen[t] # TDefault /\ StateFile.bytes = to_string_pretty(seen[t])

\* C9: a construction over a missing or zero-length file does not fail to
\* decode; when it succeeds the value is T::default(), the file exists and is
\* empty; an empty file gets its first bytes only from the write_all of a
\* drop.
C9_DefaultOnEmpty ==
    [][/\ \A s \in Stores :
             (sstate[s] = "none" /\ sstate'[s] # "none" /\ StateFile.bytes = << >>) =>
                /\ sstate'[s] \in {"open", "io_err"}
                /\ StateFile'.bytes = << >>
                /\ sstate'[s] = "open" => (data'[s] = TDefault /\ StateFile' = EmptyFile)
       /\ (StateFile.bytes = << >> /\ StateFile'.bytes # << >>) =>
             \E t \in Tasks : pc[t] = "write" /\ pc'[t] \in {"flush", "unlock"}]_vars

\* a session is Active on a store built over a missing or empty file: the value is
\* mutated and the file is there and still empty
C9_Witness ==
    \E t \in Tasks :
        /\ pc[t] = "writing" /\ nsess = 1 /\ data[tstore[t]] # TDefault
        /\ committed[tstore[t]] = TDefault
        /\ StateFile = EmptyFile

\* C10: a construction over a file that holds the compact or the pretty
\* encoding of v gives the value v; the construction and every step of a read
\* session leave the file as it was.
C10_ReadDecodeConsistency ==
    [][/\ \A s \in Stores, v \in TValues :
             (/\ sstate[s] = "none" /\ sstate'[s] \notin {"none", "io_err"}
              /\ StateFile.bytes \in {to_string(v), to_string_pretty(v)})
             => (sstate'[s] = "open" /\ data'[s] = v)
       /\ (\E s \in Stores : sstate[s] = "none" /\ sstate'[s] # "none")
             => StateFile'.bytes = StateFile.bytes
       /\ (\E t \in Tasks : pc[t] \in {"idle", "waitR", "reading"} /\ pc'[t] # pc[t]
                            /\ pc'[t] \in {"idle", "waitR", "reading"})
             => fs' = fs]_vars

\* the second store was built over what a session of the first wrote and its
\* reader sees that value
C10_Witness ==
    \E t \in Tasks :
        /\ pc[t] = "reading" /\ tstore[t] = 2 /\ landed # << >>
        /\ seen[t] = [field1 |-> Test, field2 |-> 42]
        /\ StateFile.bytes = to_string_pretty(seen[t])

\* C11: a construction whose open or read fails, or whose file holds
\* something that is not empty and does not decode, ends in an error: no
\* value is stored, the file's bytes are what they were, and no task ever
\* waits for or holds a session of a store that was not created.
C11_ConstructionFailsClosed ==
    [][/\ \A s \in Stores :
             (sstate[s] = "none" /\ sstate'[s] # "none") =>
                /\ (StateFile.bytes # << >> /\ ~from_str(StateFile.bytes).ok)
                      => sstate'[s] \in {"decode_err", "io_err"}
                /\ sstate'[s] \in {"decode_err", "io_err"} =>
                      /\ data'[s] = data[s] /\ committed'[s] = committed[s]
                      /\ StateFile'.bytes = StateFile.bytes
                /\ sstate'[s] = "decode_err" => fs' = fs
       /\ \A s \in Stores :
             sstate'[s] # "open" =>
                /\ readers'[s] = {} /\ writer'[s] = NoTask /\ queue'[s] = << >>
                /\ \A t \in Tasks : tstore'[t] = s => pc'[t] = "idle"
       /\ \A s \in Stores : sstate[s] \in {"decode_err", "io_err"} => sstate'[s] = sstate[s]]_vars

\* the second construction failed on what a write over longer contents left
\* in the file
C11_Witness ==
    /\ sstate[1] = "open" /\ sstate[2] = "decode_err"
    /\ landed # << >>
    /\ from_str(StateFile.bytes) = Fail

\* C12: the in-memory value of a store changes only in its construction and
\* in a mutation made by the holder of its write session; a step that grants
\* a session changes neither the file nor any value, and a reader is shown
\* the in-memory value, whatever other programs did to the file.
C12_FileWriteOnlyAfterConstruction ==
    [][/\ \A s \in Stores :
             data'[s] # data[s] =>
                \/ sstate[s] = "none"
                \/ \E t \in Tasks : tstore[t] = s /\ pc[t] = "writing" /\ pc'[t] = "writing"
       /\ \A t \in Tasks :
             (pc'[t] \in {"reading", "writing"} /\ pc[t] # pc'[t]) =>
                /\ fs' = fs /\ data' = data
                /\ pc'[t] = "reading" => seen'[t] = data[tstore'[t]]]_vars

\* the store was built over an empty file, another program then wrote an
\* encoding of a different value, and a reader is still shown the default
C12_Witness ==
    \E t \in Tasks :
        /\ pc[t] = "reading" /\ nsess = 0 /\ seen[t] = TDefault
        /\ StateFile.bytes = to_string([field1 |-> Test, field2 |-> 42])

\* C13: with every held session released in the end, a task that waits for
\* a read or a write session is granted it.
C13_NoStarvation ==
    \A t \in Tasks :
        (pc[t] \in {"waitR", "waitW"}) ~> (pc[t] \in {"reading", "writing"})

\* a reader holds the lock, a writer waits at the head of the queue and a
\* second reader waits behind it
C13_Witness ==
    \E t, u, w \in Tasks :
        /\ t # u /\ pc[t] = "reading" /\ pc[u] = "waitR"
        /\ pc[w] = "waitW" /\ Head(queue[tstore[w]]) = w

\* C14 as claimed: a read request made while no write session is held is
\* granted at once, whether or not a write request is waiting.
C14_ReadGrantedWithoutWriter ==
    [][\A t \in Tasks :
          (pc[t] = "idle" /\ pc'[t] \in {"waitR", "reading"}
           /\ writer[tstore'[t]] = NoTask)
          => pc'[t] = "reading"]_vars

\* C14 as amended: a read request made while no write session is held and
\* nobody waits is granted at once, whatever the number of read sessions
\* held; it waits when a request is already waiting, and a reader that waits
\* while no write session is held has a waiting writer before it in the
\* lock's queue.
C14_ReadWaitsForWriterOrQueue ==
    [][/\ \A t \in Tasks :
             (pc[t] = "idle" /\ pc'[t] \in {"waitR", "reading"}
              /\ writer[tstore'[t]] = NoTask)
             => (pc'[t] = "reading" <=> queue[tstore'[t]] = << >>)
       /\ \A t \in Tasks :
             (pc'[t] = "waitR" /\ writer'[tstore'[t]] = NoTask) =>
                LET q == queue'[tstore'[t]] IN
                \E i, j \in DOMAIN q : i < j /\ q[j] = t /\ pc'[q[i]] = "waitW"]_vars

\* a reader waits behind a waiting writer while only a reader holds the lock
C14_Witness ==
    \E t, u, w \in Tasks :
        /\ pc[t] = "waitR" /\ pc[u] = "reading" /\ pc[w] = "waitW"
        /\ writer[tstore[t]] = NoTask /\ queue[tstore[t]] = <<w, t>>

\* C15 as claimed: a release opens and writes the file that File::new
\* opened, wherever the working directory is by then, and no other file.
C15_ReleaseWritesConstructionFile ==
    [][\A t \in Tasks :
          (pc[t] \in {"open", "write"} /\ pc'[t] # pc[t]) =>
             /\ pc'[t] = "write" => fd'[t] = sdir[tstore[t]]
             /\ \A d \in Dirs \ {sdir[tstore[t]]} : fs'[d] = fs[d]]_vars

\* C16 as claimed: a release that gives up at serialization or at the open
\* leaves the file as it was before the session, and the next release whose
\* write succeeds leaves a file that decodes to the store's current value,
\* the mutations of the abandoned session included.
C16_AbandonedPersistenceHealed ==
    [][\A t \in Tasks :
          LET s == tstore[t] IN
          /\ (pc[t] \in {"writing", "open"} /\ pc'[t] # "write") => fs' = fs
          /\ (pc[t] = "write" /\ pc'[t] = "flush"
              /\ log[s] \in {"serialize_err", "open_err"})
             => Load(StateFile'.bytes) = [ok |-> TRUE, val |-> data[s]]]_vars

\* C17: every released write session attempts persistence, mutated or not:
\* the release serializes the current value or reports the failure, an open
\* that succeeds leaves the file in place even when it had been deleted, and
\* a write that succeeds over an empty or recreated file leaves exactly the
\* encoding of the current value, the default one for an untouched store.
C17_PersistenceUnconditional ==
    [][\A t \in Tasks :
          LET s == tstore[t] IN
          /\ (pc[t] = "writing" /\ pc'[t] # "writing") =>
                /\ attempts'[t] = attempts[t] + 1
                /\ \/ pc'[t] = "open" /\ json'[t] = to_string_pretty(data[s])
                   \/ pc'[t] = "unlock" /\ log'[s] = "serialize_err"
          /\ (pc[t] = "open" /\ pc'[t] = "write") => StateFile'.exists
          /\ (pc[t] = "write" /\ pc'[t] = "flush" /\ fd[t] # Unlinked
              /\ StateFile.bytes = << >>)
             => StateFile' = FileOf(to_string_pretty(data[s]))]_vars

\* the first session of a store constructed over an empty or missing file
\* changed nothing and its write has landed the encoding of the default value
C17_Witness ==
    \E t \in Tasks :
        /\ pc[t] = "flush" /\ sid[t] = 1 /\ Len(landed) = 1
        /\ data[tstore[t]] = TDefault /\ committed[tstore[t]] = TDefault
        /\ StateFile = FileOf(to_string_pretty(TDefault))

\* C18 as claimed: two stores over one path exclude nothing between them,
\* and once a session of each has written and been released, the file
\* decodes to the value of the store whose session wrote last, a value the
\* other store does not hold.
C18_LastReleasedStoreWins ==
    [][\A t \in Tasks :
          LET s == tstore[t] IN
          (/\ pc[t] = "write" /\ pc'[t] = "flush"
           /\ \A u \in Tasks \ {t} : pc[u] = "idle"
           /\ \E f \in Stores \ {s} :
                 /\ data[f] # data[s]
                 /\ \E i \in DOMAIN landed : landed[i].store = f)
          => Load(StateFile'.bytes) = [ok |-> TRUE, val |-> data[s]]]_vars

====
